---------------------------- MODULE Spec2Model ----------------------------
(***************************************************************************)
(* go-comic-converter: the image acquisition and transformation pipeline.  *)
(*                                                                         *)
(*   internal/epub/image_processing.go                                     *)
(*       colorIsBlank, findMarging, LoadImages and the loaders it calls    *)
(*       (loadDir, loadCbz, loadCbr, loadPdf handing out imageTask).       *)
(*   internal/epub/imageprocessor/epub_image_processor_loader.go           *)
(*       load, loadDir, loadCbz, loadCbr, loadPdf handing out tasks.       *)
(*                                                                         *)
(* The specifications of the module:                                       *)
(*   SpecMargin    findMarging applied to every small bitmap;              *)
(*   Spec          LoadImages: producer goroutine, worker pool, closer     *)
(*                 goroutine and the collecting loop;                      *)
(*   SpecLoader    the loaders of epub_image_processor_loader.go;          *)
(*   SpecPipeline  the runs of Spec and those of SpecLoader together;      *)
(*   FairPipeline  the same with weak fairness, for termination.           *)
(***************************************************************************)
EXTENDS Integers, Sequences, FiniteSets, TLC

VARIABLES
    \* ---- SpecMargin
    mImg,        \* the bitmap handed to findMarging
    mRect,       \* the rectangle it returned
    mpc          \* "call" | "done"

marginVars == <<mImg, mRect, mpc>>

VARIABLES
    \* ---- Spec (LoadImages of image_processing.go)
    input,       \* the path's content: [kind, files]
    options,     \* *ImageOptions
    dry,         \* the dry argument
    pc,          \* LoadImages itself: "start" | "dry" | "collect" | "returned" | "off"
    imageCount,  \* the loader's first result
    queue,       \* tasks the loader's goroutine has still to send on imageInput
    inputClosed, \* imageInput is closed
    wk,          \* the worker goroutines, by number
    outputClosed,\* imageOutput is closed
    delivered,   \* every *Image received from imageOutput, in order of arrival
    images,      \* the images slice
    ret,         \* what LoadImages returned: [images, err]
    exited       \* os.Exit(1) was called

liVars == <<input, options, dry, pc, imageCount, queue, inputClosed, wk,
            outputClosed, delivered, images, ret, exited>>

VARIABLES
    \* ---- SpecLoader (the loaders of epub_image_processor_loader.go)
    e,            \* the EPUBImageProcessor: [Input, Dry, Workers]
    lpc,          \* load(): "start" | "returned" | "off"
    totalImages,  \* load's first result
    outputMade,   \* load's second result is a channel (not nil)
    loadErr,      \* load's third result
    jobsPlan,     \* the jobs the producer goroutine sends, in its order
    jobsSent,     \* how many of them it has sent
    jobsClosed,   \* the jobs channel is closed
    lw,           \* the loader's worker goroutines, by number
    output,       \* the tasks buffered in the output channel
    outputDone,   \* the output channel is closed
    readerClosed, \* how many times the zip reader was closed
    received,     \* the tasks the consumer has taken from output
    consumerDone, \* the consumer has seen the end of output
    aborted,      \* the process ended: "none" | "exit" (os.Exit(1)) | "panic"
    buffers,      \* the bytes.Buffer values of the solid rar pass, by buffer number
    opens         \* every open or read of content so far: [by, src, id]

ldVars == <<e, lpc, totalImages, outputMade, loadErr, jobsPlan, jobsSent, jobsClosed,
            lw, output, outputDone, readerClosed, received, consumerDone,
            aborted, buffers, opens>>

vars == <<marginVars, liVars, ldVars>>

(***************************************************************************)
(* Bounds of the model.                                                    *)
(***************************************************************************)
MaxW == 3
MaxH == 3
MaxFiles == 2
MaxEntries == 3
MaxKey == 2
MaxWorkers == 2
ViewWidth == 1
ViewHeight == 2

(***************************************************************************)
(* Bitmaps.  A bitmap is [w, h, px] with px[<<x, y>>] the luma            *)
(* (color.GrayModel.Convert(c).Y) of the pixel at (x, y); decoded images   *)
(* and the images gift draws into have their origin at (0, 0).             *)
(* Rectangles are Go's image.Rectangle: Min inclusive, Max exclusive.      *)
(***************************************************************************)
Lumas == {239, 240}

Coords(w, h) == (0 .. w - 1) \X (0 .. h - 1)

Bitmaps(w, h) == { [w |-> w, h |-> h, px |-> f] : f \in [Coords(w, h) -> Lumas] }

Rect(x0, y0, x1, y1) == [MinX |-> x0, MinY |-> y0, MaxX |-> x1, MaxY |-> y1]

Bounds(img) == Rect(0, 0, img.w, img.h)

Dx(r) == r.MaxX - r.MinX

Dy(r) == r.MaxY - r.MinY

NoRect == Rect(0, 0, 0, 0)

Min(S) == CHOOSE m \in S : \A n \in S : m <= n

Max(S) == CHOOSE m \in S : \A n \in S : m >= n

RectEmpty(r) == r.MinX >= r.MaxX \/ r.MinY >= r.MaxY

At(img, x, y) == img.px[<<x, y>>]

colorIsBlank(c) == c >= 240

(***************************************************************************)
(* findMarging: the four labelled loops, run in the order LEFT, UP, RIGHT, *)
(* BOTTOM on the one rectangle imgArea.  Each loop's counter moves in step *)
(* with the side it shrinks, so one recursion step is one iteration of the *)
(* outer loop; the inner loop is the quantifier over the other axis of the *)
(* current imgArea.                                                        *)
(***************************************************************************)
ColumnBlank(img, r, x) == \A y \in r.MinY .. r.MaxY - 1 : colorIsBlank(At(img, x, y))

RowBlank(img, r, y) == \A x \in r.MinX .. r.MaxX - 1 : colorIsBlank(At(img, x, y))

RECURSIVE LoopLeft(_, _)
LoopLeft(img, r) ==
    IF r.MinX < r.MaxX /\ ColumnBlank(img, r, r.MinX)
    THEN LoopLeft(img, [r EXCEPT !.MinX = @ + 1])
    ELSE r

RECURSIVE LoopUp(_, _)
LoopUp(img, r) ==
    IF r.MinY < r.MaxY /\ RowBlank(img, r, r.MinY)
    THEN LoopUp(img, [r EXCEPT !.MinY = @ + 1])
    ELSE r

RECURSIVE LoopRight(_, _)
LoopRight(img, r) ==
    IF r.MaxX - 1 >= r.MinX /\ ColumnBlank(img, r, r.MaxX - 1)
    THEN LoopRight(img, [r EXCEPT !.MaxX = @ - 1])
    ELSE r

RECURSIVE LoopBottom(_, _)
LoopBottom(img, r) ==
    IF r.MaxY - 1 >= r.MinY /\ RowBlank(img, r, r.MaxY - 1)
    THEN LoopBottom(img, [r EXCEPT !.MaxY = @ - 1])
    ELSE r

findMargingNoBottom(img) == LoopRight(img, LoopUp(img, LoopLeft(img, Bounds(img))))

findMarging(img) == LoopBottom(img, LoopRight(img, LoopUp(img, LoopLeft(img, Bounds(img)))))

(***************************************************************************)
(* The sources LoadImages is run on.  An entry of a container is           *)
(* [name, isDir, data]; a name is [key, ext]: ext is what filepath.Ext     *)
(* gives (lower-cased), key stands for the rest of the path and is what    *)
(* the path comparator orders.  The data of an entry either decodes to a   *)
(* bitmap or makes image.Decode fail; io tells whether the bytes can be    *)
(* opened and read to their end when the entry is streamed.                *)
(***************************************************************************)
NoImage == [w |-> 0, h |-> 0, px |-> <<>>]

Decodes(img) == [ok |-> TRUE, img |-> img, io |-> TRUE]

Corrupted == [ok |-> FALSE, img |-> NoImage, io |-> TRUE]

\* an entry the enumeration listed whose open, or whose read, fails afterwards
Unreadable == [ok |-> FALSE, img |-> NoImage, io |-> FALSE]

Solid(w, h, c) == [w |-> w, h |-> h, px |-> [p \in Coords(w, h) |-> c]]

\* a single dark pixel: every transform of it is 1x1
Dot == Solid(1, 1, 239)

\* a dark double-page spread just larger than the view, on its side
Spread == Solid(ViewHeight + 1, ViewWidth + 1, 239)

\* the same spread with a blank first column
SpreadWithMargin ==
    [w |-> ViewHeight + 1, h |-> ViewWidth + 1,
     px |-> [p \in Coords(ViewHeight + 1, ViewWidth + 1) |-> IF p[1] = 0 THEN 255 ELSE 239]]

\* a page of the view's size with no dark pixel at all
BlankPage == Solid(ViewWidth, ViewHeight, 255)

Pages == {Dot, Spread, SpreadWithMargin, BlankPage}

Contents == { Decodes(p) : p \in Pages } \cup {Corrupted, Unreadable}

Name(k, x) == [key |-> k, ext |-> x]

ImageEntries == { [name |-> Name(k, "jpg"), isDir |-> FALSE, data |-> c] :
                      k \in 1 .. MaxKey, c \in Contents }

OtherEntries == { [name |-> Name(1, "txt"), isDir |-> FALSE, data |-> Corrupted],
                  [name |-> Name(1, "jpg"), isDir |-> TRUE, data |-> Corrupted] }

Entries == ImageEntries \cup OtherEntries

SeqsUpTo(S, n) == UNION { [1 .. k -> S] : k \in 0 .. n }

DistinctNames(fs) == \A i, j \in DOMAIN fs : fs[i].name = fs[j].name => i = j

\* a directory holds each path once; WalkDir hands the paths out in some order
DirSources == { [kind |-> "dir", fault |-> "none", files |-> fs] :
                    fs \in { f \in SeqsUpTo(Entries, MaxFiles) : DistinctNames(f) } }

\* an archive's file table, in its physical order
ZipSources == { [kind |-> "zip", fault |-> "none", files |-> fs] :
                    fs \in SeqsUpTo(Entries, MaxFiles) }

\* what happens to the archive between its listing and the pass that streams it:
\* nothing, the second OpenReader fails, or the Next after the last entry fails
Faults == {"none", "open", "next"}

RarSources == { [kind |-> "rar", fault |-> ft, files |-> fs] :
                    ft \in Faults, fs \in SeqsUpTo(Entries, MaxFiles) }

\* the pages of a PDF, each extracted as an image (or not: Extract fails)
PdfPage(i, c) == [name |-> Name(i, "page"), isDir |-> FALSE, data |-> c]

PdfContents == { Decodes(p) : p \in Pages } \cup {Unreadable}

PdfSources == { [kind |-> "pdf", fault |-> "none",
                 files |-> [i \in DOMAIN ps |-> PdfPage(i, ps[i])]] :
                    ps \in SeqsUpTo(PdfContents, MaxFiles) }

\* a path os.Stat fails on, and a file with an extension LoadImages does not know
OtherSources == { [kind |-> k, fault |-> "none", files |-> <<>>] : k \in {"missing", "unknown"} }

Sources == DirSources \cup ZipSources \cup RarSources \cup PdfSources \cup OtherSources

(***************************************************************************)
(* isSupportedImage and the path comparator (sortpath.By, a collaborator). *)
(***************************************************************************)
isSupportedImage(name) == name.ext \in {"jpg", "jpeg", "png", "webp"}

NameLess(a, b) == a.key < b.key

RECURSIVE InsertName(_, _)
InsertName(s, n) ==
    IF s = <<>> THEN <<n>>
    ELSE IF NameLess(n, Head(s)) THEN <<n>> \o s
    ELSE <<Head(s)>> \o InsertName(Tail(s), n)

RECURSIVE SortNames(_)
SortNames(s) == IF s = <<>> THEN <<>> ELSE InsertName(SortNames(Tail(s)), Head(s))

Qualifies(f) == ~f.isDir /\ isSupportedImage(f.name)

Qualifying(files) == SelectSeq(files, Qualifies)

NamesOf(files) == [i \in DOMAIN files |-> files[i].name]

\* indexedNames[name] after "for i, name := range names { indexedNames[name] = i }":
\* the last position of the name in the sorted list
IndexedName(sorted, name) == Max({ i \in DOMAIN sorted : sorted[i] = name }) - 1

HasIndexedName(sorted, name) == \E i \in DOMAIN sorted : sorted[i] = name

(***************************************************************************)
(* The loaders of image_processing.go: each returns the image count and    *)
(* the imageTasks its goroutine will send, in the order it sends them.     *)
(* An imageTask is [Id, data]: data is what its Reader yields.             *)
(***************************************************************************)
Task(id, f) == [Id |-> id, data |-> f.data]

FileNamed(files, name) == files[CHOOSE i \in DOMAIN files : files[i].name = name]

ErrNone == "nil"

Loaded(n, tasks) == [count |-> n, tasks |-> tasks, err |-> ErrNone]

LoadFailed(why) == [count |-> 0, tasks |-> <<>>, err |-> why]

oldLoadDir(files) ==
    LET imgs == Qualifying(files)
        sorted == SortNames(NamesOf(imgs))
    IN  IF Len(imgs) = 0 THEN LoadFailed("image not found")
        ELSE Loaded(Len(imgs),
                    [i \in DOMAIN sorted |-> Task(i - 1, FileNamed(imgs, sorted[i]))])

oldLoadCbz(files) ==
    LET imgs == Qualifying(files)
        sorted == SortNames(NamesOf(imgs))
    IN  IF Len(imgs) = 0 THEN LoadFailed("no images found")
        ELSE Loaded(Len(imgs),
                    [i \in DOMAIN imgs |-> Task(IndexedName(sorted, imgs[i].name), imgs[i])])

oldLoadCbr(files) ==
    LET sorted == SortNames(NamesOf(Qualifying(files)))
        hit(f) == HasIndexedName(sorted, f.name)
        sent == SelectSeq(files, hit)
    IN  IF Len(sorted) = 0 THEN LoadFailed("no images found")
        ELSE Loaded(Len(sorted),
                    [i \in DOMAIN sent |-> Task(IndexedName(sorted, sent[i].name), sent[i])])

oldLoadPdf(files) ==
    Loaded(Len(files), [i \in DOMAIN files |-> Task(i - 1, files[i])])

LoadInput(src) ==
    CASE src.kind = "missing" -> LoadFailed("stat")
      [] src.kind = "dir" -> oldLoadDir(src.files)
      [] src.kind = "zip" -> oldLoadCbz(src.files)
      [] src.kind = "rar" -> oldLoadCbr(src.files)
      [] src.kind = "pdf" -> oldLoadPdf(src.files)
      [] OTHER -> LoadFailed("unknown file format")

(***************************************************************************)
(* The transforms.  gift.Crop(r) draws the part of the source inside r,    *)
(* moved to the origin; its bounds are those of src.Bounds().Intersect(r). *)
(* NewGift(options) fits the bitmap inside the view, keeping its aspect    *)
(* ratio and never enlarging it; NewGiftSplitDoublePage(options) does so   *)
(* for the left and for the right half.  Only the bounds of what they draw *)
(* are needed: the results carry dst.Bounds().Dx() and Dy().               *)
(***************************************************************************)
Intersect(r, s) ==
    LET t == Rect(IF r.MinX > s.MinX THEN r.MinX ELSE s.MinX,
                  IF r.MinY > s.MinY THEN r.MinY ELSE s.MinY,
                  IF r.MaxX < s.MaxX THEN r.MaxX ELSE s.MaxX,
                  IF r.MaxY < s.MaxY THEN r.MaxY ELSE s.MaxY)
    IN  IF RectEmpty(t) THEN NoRect ELSE t

giftCrop(img, r) ==
    LET b == Intersect(Bounds(img), r)
    IN  [w |-> Dx(b), h |-> Dy(b),
         px |-> [p \in Coords(Dx(b), Dy(b)) |-> At(img, p[1] + b.MinX, p[2] + b.MinY)]]

AtLeastOne(n) == IF n < 1 THEN 1 ELSE n

\* round(a / b) for a >= 0, b > 0
RoundDiv(a, b) == (2 * a + b) \div (2 * b)

ResizeToFit(w, h, vw, vh) ==
    IF w <= 0 \/ h <= 0 THEN <<0, 0>>
    ELSE IF w <= vw /\ h <= vh THEN <<w, h>>
    ELSE IF w * vh > h * vw THEN <<vw, AtLeastOne(RoundDiv(h * vw, w))>>
    ELSE <<AtLeastOne(RoundDiv(w * vh, h)), vh>>

NewGiftBounds(opts, img) == ResizeToFit(img.w, img.h, opts.ViewWidth, opts.ViewHeight)

NewGiftSplitDoublePageBounds(opts, img, part) ==
    LET half == IF part = 1 THEN img.w \div 2 ELSE img.w - img.w \div 2
    IN  ResizeToFit(half, img.h, opts.ViewWidth, opts.ViewHeight)

(***************************************************************************)
(* One worker's pass over a task (the body of "for img := range            *)
(* imageInput").                                                           *)
(***************************************************************************)
\* src after "if options.Crop { ... src = newSrc }"
CropStage(opts, decoded) ==
    IF opts.Crop THEN giftCrop(decoded, findMarging(decoded)) ELSE decoded

\* the condition of the "Auto split double page" if
SplitDoublePageAlsoCover(opts, id, src) ==
    /\ opts.AutoSplitDoublePage
    /\ src.w > src.h
    /\ src.w > opts.ViewHeight
    /\ src.h > opts.ViewWidth

SplitDoublePageNever(opts, id, src) == FALSE

SplitDoublePage(opts, id, src) ==
    /\ (~opts.HasCover \/ id > 0)
    /\ opts.AutoSplitDoublePage
    /\ src.w > src.h
    /\ src.w > opts.ViewHeight
    /\ src.h > opts.ViewWidth

Image(id, part, wh, cover) ==
    [Id |-> id, Part |-> part, Width |-> wh[1], Height |-> wh[2], IsCover |-> cover]

\* the *Image the worker sends for part 0, and for parts 1 and 2
ConvertedImage(opts, id, src) == Image(id, 0, NewGiftBounds(opts, src), id = 0)

SplitImage(opts, id, src, part) ==
    Image(id, part, NewGiftSplitDoublePageBounds(opts, src, part), FALSE)

\* the *Image appended in dry mode
DryImage(id) == Image(id, 0, <<0, 0>>, FALSE)

\* the test of the collecting loop: the image is appended
KeepUnlessThin(opts, img) == ~(opts.NoBlankPage /\ (img.Width = 1 \/ img.Height = 1))

Keep(opts, img) == ~(opts.NoBlankPage /\ img.Width = 1 /\ img.Height = 1)

(***************************************************************************)
(* Spec: LoadImages(path, options, dry).                                   *)
(*                                                                         *)
(* imageInput and imageOutput are unbuffered: a send and the receive that  *)
(* takes it are one step.  The loader's goroutine sends the tasks of       *)
(* queue in order and then closes imageInput.                              *)
(***************************************************************************)
OptionSets ==
    [Workers : 1 .. MaxWorkers, Crop : BOOLEAN, HasCover : BOOLEAN,
     AutoSplitDoublePage : BOOLEAN, NoBlankPage : BOOLEAN,
     ViewWidth : {ViewWidth}, ViewHeight : {ViewHeight}]

NoTask == [Id |-> -1, data |-> Corrupted]

\* a worker at the top of its range loop, nothing received yet; emitted lists the
\* Parts it has sent for the task it holds
FreshWorker == [pc |-> "recv", task |-> NoTask, decoded |-> NoImage, src |-> NoImage,
                emitted |-> <<>>]

\* wg.Wait() returns: every worker has run its deferred wg.Done()
wgWaitFirst(workers) == \E w \in DOMAIN workers : workers[w].pc = "done"

wgWaitForever(workers) == FALSE

wgWait(workers) == \A w \in DOMAIN workers : workers[w].pc = "done"

MarginIdle == mImg = NoImage /\ mRect = NoRect /\ mpc = "off"

NoReturn == [images |-> <<>>, err |-> "none"]

LoaderIdle ==
    /\ e = [Input |-> [kind |-> "missing", solid |-> FALSE, fault |-> "none", files |-> <<>>],
            Dry |-> FALSE, Workers |-> 1]
    /\ lpc = "off"
    /\ totalImages = 0 /\ outputMade = FALSE /\ loadErr = "none"
    /\ jobsPlan = <<>> /\ jobsSent = 0 /\ jobsClosed = FALSE
    /\ lw = <<>> /\ output = <<>> /\ outputDone = FALSE /\ readerClosed = 0
    /\ received = <<>> /\ consumerDone = FALSE
    /\ aborted = "none" /\ buffers = <<>> /\ opens = {}

LoadImagesIdle ==
    /\ input = [kind |-> "missing", fault |-> "none", files |-> <<>>]
    /\ options = [Workers |-> 1, Crop |-> FALSE, HasCover |-> FALSE,
                  AutoSplitDoublePage |-> FALSE, NoBlankPage |-> FALSE,
                  ViewWidth |-> ViewWidth, ViewHeight |-> ViewHeight]
    /\ dry = FALSE
    /\ pc = "off"
    /\ imageCount = 0 /\ queue = <<>> /\ inputClosed = FALSE /\ wk = <<>>
    /\ outputClosed = FALSE /\ delivered = <<>> /\ images = <<>>
    /\ ret = NoReturn /\ exited = FALSE

Init ==
    /\ MarginIdle
    /\ LoaderIdle
    /\ input \in Sources
    /\ options \in OptionSets
    /\ dry \in BOOLEAN
    /\ pc = "start"
    /\ imageCount = 0 /\ queue = <<>> /\ inputClosed = FALSE /\ wk = <<>>
    /\ outputClosed = FALSE /\ delivered = <<>> /\ images = <<>>
    /\ ret = NoReturn /\ exited = FALSE

Running == pc \in {"dry", "collect"} /\ ~exited

\* os.Stat, the loader, and in non-dry mode the start of the workers and of the
\* goroutine that closes imageOutput
Load ==
    /\ pc = "start"
    /\ LET r == LoadInput(input)
       IN  IF r.err # ErrNone
           THEN /\ pc' = "returned"
                /\ ret' = [images |-> <<>>, err |-> r.err]
                /\ UNCHANGED <<imageCount, queue, wk>>
           ELSE /\ imageCount' = r.count
                /\ queue' = r.tasks
                /\ pc' = IF dry THEN "dry" ELSE "collect"
                /\ wk' = IF dry THEN <<>> ELSE [w \in 1 .. options.Workers |-> FreshWorker]
                /\ UNCHANGED ret
    /\ UNCHANGED <<marginVars, ldVars, input, options, dry, inputClosed, outputClosed,
                   delivered, images, exited>>

\* the next step of the loader's goroutine ends the process.  loadDir and loadCbz
\* open the entry before they send it and call os.Exit(1) when that fails; loadPdf
\* panics when Extract fails; loadCbr panics when its second OpenReader fails, or when
\* Next fails, and goes on when io.Copy fails (its result is dropped).
ProducerFails ==
    \/ /\ input.kind \in {"dir", "zip", "pdf"}
       /\ queue # <<>> /\ ~Head(queue).data.io
    \/ /\ input.kind = "rar" /\ input.fault = "open"
    \/ /\ input.kind = "rar" /\ input.fault = "next"
       /\ queue = <<>>

LoaderAbort ==
    /\ Running /\ ~inputClosed
    /\ ProducerFails
    /\ exited' = TRUE
    /\ UNCHANGED <<marginVars, ldVars, input, options, dry, pc, imageCount, queue,
                   inputClosed, wk, outputClosed, delivered, images, ret>>

\* the loader's goroutine: "defer close(output)" once every task is sent
CloseInput ==
    /\ Running
    /\ ~ProducerFails
    /\ queue = <<>> /\ ~inputClosed
    /\ inputClosed' = TRUE
    /\ UNCHANGED <<marginVars, ldVars, input, options, dry, pc, imageCount, queue, wk,
                   outputClosed, delivered, images, ret, exited>>

\* dry mode: LoadImages itself ranges over imageInput
DryReceive ==
    /\ pc = "dry" /\ ~exited
    /\ ~ProducerFails
    /\ queue # <<>>
    /\ images' = Append(images, DryImage(Head(queue).Id))
    /\ queue' = Tail(queue)
    /\ UNCHANGED <<marginVars, ldVars, input, options, dry, pc, imageCount, inputClosed, wk,
                   outputClosed, delivered, ret, exited>>

DryReturn ==
    /\ pc = "dry" /\ ~exited
    /\ inputClosed
    /\ ret' = [images |-> images, err |-> ErrNone]
    /\ pc' = "returned"
    /\ UNCHANGED <<marginVars, ldVars, input, options, dry, imageCount, queue, inputClosed, wk,
                   outputClosed, delivered, images, exited>>

\* "for img := range imageInput": the worker takes the next task
WorkerReceive(w) ==
    /\ pc = "collect" /\ ~exited
    /\ wk[w].pc = "recv"
    /\ ~ProducerFails
    /\ queue # <<>>
    /\ wk' = [wk EXCEPT ![w] = [FreshWorker EXCEPT !.pc = "decode", !.task = Head(queue)]]
    /\ queue' = Tail(queue)
    /\ UNCHANGED <<marginVars, ldVars, input, options, dry, pc, imageCount, inputClosed,
                   outputClosed, delivered, images, ret, exited>>

\* image.Decode, then the crop and the conversion; a decode error ends the process
WorkerDecode(w) ==
    /\ pc = "collect" /\ ~exited
    /\ wk[w].pc = "decode"
    /\ IF ~wk[w].task.data.ok
       THEN /\ exited' = TRUE
            /\ UNCHANGED wk
       ELSE /\ wk' = [wk EXCEPT ![w].pc = "send0",
                                ![w].decoded = wk[w].task.data.img,
                                ![w].src = CropStage(options, wk[w].task.data.img)]
            /\ UNCHANGED exited
    /\ UNCHANGED <<marginVars, ldVars, input, options, dry, pc, imageCount, queue, inputClosed,
                   outputClosed, delivered, images, ret>>

\* the collecting loop's body for one received *Image
Collect(img) ==
    /\ delivered' = Append(delivered, img)
    /\ images' = IF Keep(options, img) THEN Append(images, img) ELSE images

\* "imageOutput <- &Image{...}" for part 0, received by the collecting loop; then the
\* split test
WorkerSend0(w) ==
    /\ pc = "collect" /\ ~exited
    /\ wk[w].pc = "send0"
    /\ Collect(ConvertedImage(options, wk[w].task.Id, wk[w].src))
    /\ wk' = [wk EXCEPT ![w].emitted = Append(@, 0),
                        ![w].pc = IF SplitDoublePage(options, wk[w].task.Id, wk[w].src)
                                  THEN "send1" ELSE "recv"]
    /\ UNCHANGED <<marginVars, ldVars, input, options, dry, pc, imageCount, queue, inputClosed,
                   outputClosed, ret, exited>>

\* the send of one half, "for i, g := range gifts"
WorkerSendPart(w) ==
    /\ pc = "collect" /\ ~exited
    /\ wk[w].pc \in {"send1", "send2"}
    /\ LET part == IF wk[w].pc = "send1" THEN 1 ELSE 2
       IN  /\ Collect(SplitImage(options, wk[w].task.Id, wk[w].src, part))
           /\ wk' = [wk EXCEPT ![w].emitted = Append(@, part),
                               ![w].pc = IF part = 1 THEN "send2" ELSE "recv"]
    /\ UNCHANGED <<marginVars, ldVars, input, options, dry, pc, imageCount, queue, inputClosed,
                   outputClosed, ret, exited>>

\* the range loop ends on the closed channel: wg.Done()
WorkerExit(w) ==
    /\ pc = "collect" /\ ~exited
    /\ wk[w].pc = "recv"
    /\ queue = <<>> /\ inputClosed
    /\ wk' = [wk EXCEPT ![w].pc = "done"]
    /\ UNCHANGED <<marginVars, ldVars, input, options, dry, pc, imageCount, queue, inputClosed,
                   outputClosed, delivered, images, ret, exited>>

\* "wg.Wait(); close(imageOutput)"
CloseOutput ==
    /\ pc = "collect" /\ ~exited
    /\ ~outputClosed
    /\ wgWait(wk)
    /\ outputClosed' = TRUE
    /\ UNCHANGED <<marginVars, ldVars, input, options, dry, pc, imageCount, queue, inputClosed,
                   wk, delivered, images, ret, exited>>

\* the collecting loop ends on the closed channel
Return ==
    /\ pc = "collect" /\ ~exited
    /\ outputClosed
    /\ ret' = IF Len(images) = 0
              THEN [images |-> <<>>, err |-> "image not found"]
              ELSE [images |-> images, err |-> ErrNone]
    /\ pc' = "returned"
    /\ UNCHANGED <<marginVars, ldVars, input, options, dry, imageCount, queue, inputClosed,
                   wk, outputClosed, delivered, images, exited>>

Next ==
    \/ Load
    \/ LoaderAbort
    \/ CloseInput
    \/ DryReceive
    \/ DryReturn
    \/ \E w \in DOMAIN wk : WorkerReceive(w)
    \/ \E w \in DOMAIN wk : WorkerDecode(w)
    \/ \E w \in DOMAIN wk : WorkerSend0(w)
    \/ \E w \in DOMAIN wk : WorkerSendPart(w)
    \/ \E w \in DOMAIN wk : WorkerExit(w)
    \/ CloseOutput
    \/ Return

Spec == Init /\ [][Next]_vars

(***************************************************************************)
(* SpecLoader: load() of epub_image_processor_loader.go and the goroutines *)
(* it starts.                                                              *)
(*                                                                         *)
(* loadDir, loadCbz and loadCbr start one producer that sends the jobs on  *)
(* the unbuffered jobs channel, WorkersRatio(50) workers that turn a job   *)
(* into a task on output (buffered, capacity e.Workers), and a goroutine   *)
(* that closes output once every worker is done.  loadPdf starts a single  *)
(* goroutine that sends the tasks on an unbuffered output.  The producer   *)
(* of loadCbr reads a solid archive itself, entry after entry, and hands   *)
(* out jobs that read what it buffered.                                    *)
(***************************************************************************)
LoaderContents == {Decodes(Dot), Corrupted, Unreadable}

LoaderImageEntries == { [name |-> Name(k, "jpg"), isDir |-> FALSE, data |-> c] :
                            k \in 1 .. MaxKey, c \in LoaderContents }

LoaderEntries == LoaderImageEntries \cup OtherEntries

\* solid tells whether the rar archive is a solid one; fault is what happens to a
\* solid archive between rardecode.List and the pass that streams it, and for a zip
\* "open" is a file zip.OpenReader cannot open
LoaderSources ==
    { [kind |-> "dir", solid |-> FALSE, fault |-> "none", files |-> fs] :
          fs \in { f \in SeqsUpTo(LoaderEntries, MaxEntries) : DistinctNames(f) } }
    \cup { [kind |-> "zip", solid |-> FALSE, fault |-> "none", files |-> fs] :
          fs \in SeqsUpTo(LoaderEntries, MaxEntries) }
    \cup { [kind |-> "zip", solid |-> FALSE, fault |-> "open", files |-> <<>>] }
    \cup { [kind |-> "rar", solid |-> FALSE, fault |-> "none", files |-> fs] :
          fs \in SeqsUpTo(LoaderEntries, MaxEntries) }
    \cup { [kind |-> "rar", solid |-> TRUE, fault |-> ft, files |-> fs] :
          ft \in Faults, fs \in SeqsUpTo(LoaderEntries, MaxEntries) }
    \cup { [kind |-> "pdf", solid |-> FALSE, fault |-> "none",
            files |-> [i \in DOMAIN ps |->
                          [name |-> Name(i, "page"), isDir |-> FALSE, data |-> ps[i]]]] :
          ps \in SeqsUpTo(LoaderContents, MaxEntries) }
    \cup { [kind |-> k, solid |-> FALSE, fault |-> "none", files |-> <<>>] :
          k \in {"missing", "unknown"} }

\* e.WorkersRatio(50)
WorkersRatio(workers, pct) == AtLeastOne((workers * pct) \div 100)

\* image.Image values: none, a decoded bitmap, the card drawn by corruptedImage
NilImage == [tag |-> "nil", img |-> NoImage]

DecodedImage(img) == [tag |-> "decoded", img |-> img]

corruptedImage == [tag |-> "corrupted", img |-> [w |-> 1200, h |-> 1920, px |-> <<>>]]

\* "var b bytes.Buffer" is declared in the body of the loop: the i-th iteration that
\* buffers an entry has a buffer of its own
BufferOfShared(i) == 1

BufferOf(i) == i

\* a job: data is the entry of the container the job names; buf is the number of the
\* buffer its Open closure reads, 0 when Open opens the entry in the container
Job(id, f) == [Id |-> id, Name |-> f.name, data |-> f.data, buf |-> 0]

BufferedJob(id, f, i) == [Id |-> id, Name |-> f.name, data |-> f.data, buf |-> BufferOf(i)]

NoJob == [Id |-> -1, Name |-> Name(0, ""), data |-> Corrupted, buf |-> 0]

\* what an open gives: the error is nil (ok) and the reader yields bytes, one element
\* for each entry whose content was written to what is read
Reader(ok, bytes) == [ok |-> ok, bytes |-> bytes]

NoReader == Reader(FALSE, <<>>)

\* os.Open(job.Path), job.F.Open(), job.Open(): the closure of a buffered job reads
\* its buffer and returns no error
OpenJob(job) ==
    IF job.buf > 0 THEN Reader(TRUE, buffers[job.buf])
    ELSE IF job.data.io THEN Reader(TRUE, <<job.data>>)
    ELSE NoReader

\* pdfimage.Extract(pdf, i+1)
ExtractPage(job) == IF job.data.io THEN Reader(TRUE, <<job.data>>) ELSE NoReader

\* filepath.Split of the entry's path, the directory made relative to the input; the
\* names with an even key stand for the paths below sub/, and a page of a PDF has
\* the empty path
PathOf(name) == IF name.ext # "page" /\ name.key % 2 = 0 THEN "sub/" ELSE ""

\* the rest of the loop's body once the entry was opened (not at all if Dry):
\* image.Decode reads the first image the reader yields
TaskOfAlwaysDecoding(job, reader, isDry) ==
    LET err == IF ~reader.ok THEN "open"
               ELSE IF ~Head(reader.bytes).ok THEN "decode"
               ELSE ErrNone
    IN  [Id |-> job.Id,
         Image |-> IF err # ErrNone THEN corruptedImage
                   ELSE DecodedImage(Head(reader.bytes).img),
         Path |-> PathOf(job.Name),
         Name |-> job.Name,
         Error |-> err]

TaskOfNoPlaceholder(job, reader, isDry) ==
    LET err == IF isDry THEN ErrNone
               ELSE IF ~reader.ok THEN "open"
               ELSE IF ~Head(reader.bytes).ok THEN "decode"
               ELSE ErrNone
    IN  [Id |-> job.Id,
         Image |-> IF isDry \/ err # ErrNone THEN NilImage
                   ELSE DecodedImage(Head(reader.bytes).img),
         Path |-> PathOf(job.Name),
         Name |-> job.Name,
         Error |-> err]

TaskOf(job, reader, isDry) ==
    LET err == IF isDry THEN ErrNone
               ELSE IF ~reader.ok THEN "open"
               ELSE IF ~Head(reader.bytes).ok THEN "decode"
               ELSE ErrNone
    IN  [Id |-> job.Id,
         Image |-> IF isDry THEN NilImage
                   ELSE IF err # ErrNone THEN corruptedImage
                   ELSE DecodedImage(Head(reader.bytes).img),
         Path |-> PathOf(job.Name),
         Name |-> job.Name,
         Error |-> err]

NoTaskOut == [Id |-> -1, Image |-> NilImage, Path |-> "", Name |-> Name(0, ""),
              Error |-> ErrNone]

LoaderResult(n, made, err, jobs) == [total |-> n, made |-> made, err |-> err, jobs |-> jobs]

loadDir(files) ==
    LET imgs == Qualifying(files)
        sorted == SortNames(NamesOf(imgs))
    IN  IF Len(imgs) = 0 THEN LoaderResult(0, FALSE, "no images found", <<>>)
        ELSE LoaderResult(Len(imgs), TRUE, ErrNone,
                          [i \in DOMAIN sorted |-> Job(i - 1, FileNamed(imgs, sorted[i]))])

loadCbz(files) ==
    LET imgs == Qualifying(files)
        sorted == SortNames(NamesOf(imgs))
    IN  IF Len(imgs) = 0 THEN LoaderResult(0, FALSE, "no images found", <<>>)
        ELSE LoaderResult(Len(imgs), TRUE, ErrNone,
                          [i \in DOMAIN imgs |-> Job(IndexedName(sorted, imgs[i].name), imgs[i])])

\* the producer walks the archive's entries in their physical order, with r.Next()
\* when buffered (isSolid && !e.Dry) and over the listed files otherwise, and sends a
\* job for each one whose name is a key of indexedNames
loadCbr(files, buffered) ==
    LET sorted == SortNames(NamesOf(Qualifying(files)))
        hit(f) == HasIndexedName(sorted, f.name)
        sent == SelectSeq(files, hit)
    IN  IF Len(sorted) = 0 THEN LoaderResult(0, FALSE, "no images found", <<>>)
        ELSE LoaderResult(Len(sorted), TRUE, ErrNone,
                 [i \in DOMAIN sent |->
                     IF buffered
                     THEN BufferedJob(IndexedName(sorted, sent[i].name), sent[i], i)
                     ELSE Job(IndexedName(sorted, sent[i].name), sent[i])])

\* one task per page, sent by the goroutine itself
loadPdf(files) ==
    LoaderResult(Len(files), TRUE, ErrNone, [i \in DOMAIN files |-> Job(i - 1, files[i])])

errNoImagesFound == "no images found"

\* loadCbz returns the error of zip.OpenReader before it has a reader
ErrOpenReader == "open reader"

load(src, isDry) ==
    CASE src.kind = "missing" -> LoaderResult(0, FALSE, "stat", <<>>)
      [] src.kind = "dir" -> loadDir(src.files)
      [] src.kind = "zip" /\ src.fault = "open" -> LoaderResult(0, FALSE, ErrOpenReader, <<>>)
      [] src.kind = "zip" -> loadCbz(src.files)
      [] src.kind = "rar" -> loadCbr(src.files, src.solid /\ ~isDry)
      [] src.kind = "pdf" -> loadPdf(src.files)
      [] OTHER -> LoaderResult(0, FALSE, "unknown file format", <<>>)

\* a worker at the top of its range loop; reader is what its last open gave
FreshLoaderWorker == [pc |-> "recv", job |-> NoJob, reader |-> NoReader, task |-> NoTaskOut]

\* loadPdf makes output unbuffered and starts no worker
OutputCap == IF e.Input.kind = "pdf" THEN 0 ELSE e.Workers

InitLoader ==
    /\ MarginIdle
    /\ LoadImagesIdle
    /\ e \in [Input : LoaderSources, Dry : BOOLEAN, Workers : 1 .. 2 * MaxWorkers]
    /\ lpc = "start"
    /\ totalImages = 0 /\ outputMade = FALSE /\ loadErr = "none"
    /\ jobsPlan = <<>> /\ jobsSent = 0 /\ jobsClosed = FALSE
    /\ lw = <<>> /\ output = <<>> /\ outputDone = FALSE /\ readerClosed = 0
    /\ received = <<>> /\ consumerDone = FALSE
    /\ aborted = "none" /\ buffers = <<>> /\ opens = {}

Streaming == lpc = "returned" /\ loadErr = ErrNone /\ aborted = "none"

\* "if isSolid && !e.Dry": the producer reads the archive itself
SolidPass == e.Input.kind = "rar" /\ e.Input.solid /\ ~e.Dry

Opening(by, src, id) == [by |-> by, src |-> src, id |-> id]

ProducerOpened == Opening("producer", "archive", 0) \in opens

EntryRead(i) == Opening("producer", "entry", i) \in opens

\* io.Copy(&b, r) into the buffer numbered k
WriteBuffer(bufs, k, data) ==
    IF k > Len(bufs) THEN Append(bufs, <<data>>)
    ELSE [bufs EXCEPT ![k] = Append(@, data)]

\* load(): the enumeration, and the start of the goroutines
LoaderLoad ==
    /\ lpc = "start"
    /\ LET r == load(e.Input, e.Dry)
       IN  /\ totalImages' = r.total
           /\ outputMade' = r.made
           /\ loadErr' = r.err
           /\ jobsPlan' = r.jobs
           /\ lw' = IF r.err = ErrNone /\ e.Input.kind # "pdf"
                    THEN [w \in 1 .. WorkersRatio(e.Workers, 50) |-> FreshLoaderWorker]
                    ELSE <<>>
           \* loadCbz closes the reader it opened when it finds no image
           /\ readerClosed' = IF e.Input.kind = "zip" /\ r.err = errNoImagesFound
                               THEN 1 ELSE 0
    /\ lpc' = "returned"
    /\ UNCHANGED <<marginVars, liVars, e, jobsSent, jobsClosed, output, outputDone,
                   received, consumerDone, aborted, buffers, opens>>

\* loadPdf's goroutine: Extract unless Dry, then one send on the unbuffered output,
\* taken by the consumer; an Extract that fails gives a task like any other
PdfSend ==
    /\ Streaming /\ e.Input.kind = "pdf"
    /\ jobsSent < Len(jobsPlan)
    /\ LET job == jobsPlan[jobsSent + 1]
       IN  /\ received' = Append(received, TaskOf(job, ExtractPage(job), e.Dry))
           /\ opens' = IF e.Dry THEN opens
                       ELSE opens \cup {Opening("producer", "page", job.Id)}
    /\ jobsSent' = jobsSent + 1
    /\ UNCHANGED <<marginVars, liVars, e, lpc, totalImages, outputMade, loadErr, jobsPlan,
                   jobsClosed, lw, output, outputDone, readerClosed, consumerDone,
                   aborted, buffers>>

\* its deferred close(output)
PdfClose ==
    /\ Streaming /\ e.Input.kind = "pdf"
    /\ jobsSent = Len(jobsPlan) /\ ~outputDone
    /\ outputDone' = TRUE
    /\ UNCHANGED <<marginVars, liVars, e, lpc, totalImages, outputMade, loadErr, jobsPlan,
                   jobsSent, jobsClosed, lw, output, readerClosed, received, consumerDone,
                   aborted, buffers, opens>>

\* the solid pass: rardecode.OpenReader(e.Input), os.Exit(1) when it fails
SolidOpen ==
    /\ Streaming /\ SolidPass
    /\ ~ProducerOpened
    /\ IF e.Input.fault = "open"
       THEN /\ aborted' = "exit"
            /\ UNCHANGED opens
       ELSE /\ opens' = opens \cup {Opening("producer", "archive", 0)}
            /\ UNCHANGED aborted
    /\ UNCHANGED <<marginVars, liVars, e, lpc, totalImages, outputMade, loadErr, jobsPlan,
                   jobsSent, jobsClosed, lw, output, outputDone, readerClosed, received,
                   consumerDone, buffers>>

\* the solid pass: r.Next() up to the next entry indexedNames knows, and io.Copy of
\* its content into the iteration's buffer, os.Exit(1) when the copy fails
SolidRead ==
    /\ Streaming /\ SolidPass
    /\ ProducerOpened
    /\ jobsSent < Len(jobsPlan) /\ ~EntryRead(jobsSent + 1)
    /\ LET job == jobsPlan[jobsSent + 1]
       IN  IF ~job.data.io
           THEN /\ aborted' = "exit"
                /\ UNCHANGED <<buffers, opens>>
           ELSE /\ buffers' = WriteBuffer(buffers, job.buf, job.data)
                /\ opens' = opens \cup {Opening("producer", "entry", jobsSent + 1)}
                /\ UNCHANGED aborted
    /\ UNCHANGED <<marginVars, liVars, e, lpc, totalImages, outputMade, loadErr, jobsPlan,
                   jobsSent, jobsClosed, lw, output, outputDone, readerClosed, received,
                   consumerDone>>

\* the producer's deferred close(jobs) once its loop ends.  In the solid pass the loop
\* ends on the Next that follows the last entry: io.EOF, or an error, and then the
\* process ends, by os.Exit(1) or before it by the panic of f.Name if Next gave no
\* header with the error.
CloseJobs ==
    /\ Streaming /\ e.Input.kind # "pdf"
    /\ SolidPass => ProducerOpened
    /\ jobsSent = Len(jobsPlan) /\ ~jobsClosed
    /\ IF SolidPass /\ e.Input.fault = "next"
       THEN /\ aborted' \in {"exit", "panic"}
            /\ UNCHANGED jobsClosed
       ELSE /\ jobsClosed' = TRUE
            /\ UNCHANGED aborted
    /\ UNCHANGED <<marginVars, liVars, e, lpc, totalImages, outputMade, loadErr, jobsPlan,
                   jobsSent, lw, output, outputDone, readerClosed, received, consumerDone,
                   buffers, opens>>

\* "for job := range jobs": a worker takes the job the producer sends next
LoaderWorkerReceive(w) ==
    /\ Streaming
    /\ lw[w].pc = "recv"
    /\ jobsSent < Len(jobsPlan)
    /\ SolidPass => EntryRead(jobsSent + 1)
    /\ lw' = [lw EXCEPT ![w] = [FreshLoaderWorker EXCEPT !.pc = "open",
                                                         !.job = jobsPlan[jobsSent + 1]]]
    /\ jobsSent' = jobsSent + 1
    /\ UNCHANGED <<marginVars, liVars, e, lpc, totalImages, outputMade, loadErr, jobsPlan,
                   jobsClosed, output, outputDone, readerClosed, received, consumerDone,
                   aborted, buffers, opens>>

\* "if !e.Dry { f, err = open; if err == nil { decode }; f.Close() }" and the task.
\* loadDir closes f inside "if err == nil".  loadCbz and loadCbr close it after the
\* if: when the open failed with a nil f that call panics; zip's Open gives a nil f
\* with every error, what rardecode's Open gives with an error is not in the sources.
LoaderWorkerOpen(w) ==
    /\ Streaming
    /\ lw[w].pc = "open"
    /\ LET job == lw[w].job
           reader == IF e.Dry THEN NoReader ELSE OpenJob(job)
           failed == ~e.Dry /\ ~reader.ok
           goesOn == /\ lw' = [lw EXCEPT ![w].pc = "send",
                                         ![w].reader = reader,
                                         ![w].task = TaskOf(job, reader, e.Dry)]
                     /\ UNCHANGED aborted
           panics == /\ aborted' = "panic"
                     /\ UNCHANGED lw
       IN  /\ opens' = IF e.Dry THEN opens
                       ELSE opens \cup {Opening("worker",
                                                IF job.buf > 0 THEN "buffer" ELSE "entry",
                                                job.Id)}
           /\ CASE failed /\ e.Input.kind = "zip" -> panics
                [] failed /\ e.Input.kind = "rar" -> panics \/ goesOn
                [] OTHER -> goesOn
    /\ UNCHANGED <<marginVars, liVars, e, lpc, totalImages, outputMade, loadErr, jobsPlan,
                   jobsSent, jobsClosed, output, outputDone, readerClosed, received,
                   consumerDone, buffers>>

\* "output <- &tasks{...}": blocks while the buffer is full
LoaderWorkerSend(w) ==
    /\ Streaming
    /\ lw[w].pc = "send"
    /\ Len(output) < OutputCap
    /\ output' = Append(output, lw[w].task)
    /\ lw' = [lw EXCEPT ![w].pc = "recv"]
    /\ UNCHANGED <<marginVars, liVars, e, lpc, totalImages, outputMade, loadErr, jobsPlan,
                   jobsSent, jobsClosed, outputDone, readerClosed, received, consumerDone,
                   aborted, buffers, opens>>

\* the range loop ends on the closed jobs channel: wg.Done()
LoaderWorkerExit(w) ==
    /\ Streaming
    /\ lw[w].pc = "recv"
    /\ jobsSent = Len(jobsPlan) /\ jobsClosed
    /\ lw' = [lw EXCEPT ![w].pc = "done"]
    /\ UNCHANGED <<marginVars, liVars, e, lpc, totalImages, outputMade, loadErr, jobsPlan,
                   jobsSent, jobsClosed, output, outputDone, readerClosed, received,
                   consumerDone, aborted, buffers, opens>>

\* "wg.Wait(); close(output)" and, in loadCbz, "r.Close()"
LoaderCloseOutput ==
    /\ Streaming /\ e.Input.kind # "pdf"
    /\ ~outputDone
    /\ wgWait(lw)
    /\ outputDone' = TRUE
    /\ readerClosed' = IF e.Input.kind = "zip" THEN readerClosed + 1 ELSE readerClosed
    /\ UNCHANGED <<marginVars, liVars, e, lpc, totalImages, outputMade, loadErr, jobsPlan,
                   jobsSent, jobsClosed, lw, output, received, consumerDone,
                   aborted, buffers, opens>>

\* the caller's "for img := range output"
Consume ==
    /\ Streaming /\ ~consumerDone
    /\ output # <<>>
    /\ received' = Append(received, Head(output))
    /\ output' = Tail(output)
    /\ UNCHANGED <<marginVars, liVars, e, lpc, totalImages, outputMade, loadErr, jobsPlan,
                   jobsSent, jobsClosed, lw, outputDone, readerClosed, consumerDone,
                   aborted, buffers, opens>>

ConsumeEnd ==
    /\ Streaming /\ ~consumerDone
    /\ output = <<>> /\ outputDone
    /\ consumerDone' = TRUE
    /\ UNCHANGED <<marginVars, liVars, e, lpc, totalImages, outputMade, loadErr, jobsPlan,
                   jobsSent, jobsClosed, lw, output, outputDone, readerClosed, received,
                   aborted, buffers, opens>>

NextLoader ==
    \/ LoaderLoad
    \/ PdfSend
    \/ PdfClose
    \/ SolidOpen
    \/ SolidRead
    \/ CloseJobs
    \/ \E w \in DOMAIN lw : LoaderWorkerReceive(w)
    \/ \E w \in DOMAIN lw : LoaderWorkerOpen(w)
    \/ \E w \in DOMAIN lw : LoaderWorkerSend(w)
    \/ \E w \in DOMAIN lw : LoaderWorkerExit(w)
    \/ LoaderCloseOutput
    \/ Consume
    \/ ConsumeEnd

SpecLoader == InitLoader /\ [][NextLoader]_vars

(***************************************************************************)
(* Properties of LoadImages, checked under Spec.                           *)
(***************************************************************************)
\* the worker has sent everything it sends for its task
Finished(w) == wk[w].pc \in {"recv", "done"} /\ wk[w].task # NoTask

\* the worker holds a decoded bitmap
Decoded(w) == wk[w].pc \in {"send0", "send1", "send2"} \/ Finished(w)

CollectLoopRan == pc = "returned" /\ outputClosed

IndexPartOrdered(a, b) == a.Id < b.Id \/ (a.Id = b.Id /\ a.Part <= b.Part)

SortedByIndexPart(seq) ==
    \A i, j \in DOMAIN seq : i < j => IndexPartOrdered(seq[i], seq[j])

(***************************************************************************)
(* C1.  Whatever the worker count and the interleaving, the list           *)
(* LoadImages returns (dry or not) is sorted by Index, then Part.          *)
(***************************************************************************)
C1_ReturnedSorted ==
    (pc = "returned" /\ ret.err = ErrNone) => SortedByIndexPart(ret.images)

(***************************************************************************)
(* C2.  An entry whose bytes fail to decode does not abort the run: the    *)
(* process is not ended, and LoadImages returns normally with at least one *)
(* result for every Index 0..N-1.                                          *)
(***************************************************************************)
SomeTaskCorrupted ==
    /\ input.fault = "none"
    /\ \A i \in DOMAIN LoadInput(input).tasks : LoadInput(input).tasks[i].data.io
    /\ \E i \in DOMAIN LoadInput(input).tasks : ~LoadInput(input).tasks[i].data.ok

C2_CorruptedEntryDoesNotAbort ==
    (~dry /\ pc # "start" /\ SomeTaskCorrupted) =>
        /\ ~exited
        /\ CollectLoopRan =>
              /\ ret.err = ErrNone
              /\ \A id \in 0 .. imageCount - 1 : \E k \in DOMAIN ret.images : ret.images[k].Id = id

(***************************************************************************)
(* C3 as stated.  A page eligible for splitting (splitting enabled, not    *)
(* the exempt cover, source wider than tall, wider than the view is high,  *)
(* higher than the view is wide) produces exactly Part 1 and Part 2 and no *)
(* Part 0; any other page produces exactly one result, Part 0.  The source *)
(* is read as the bitmap src the test of the code is made on.              *)
(***************************************************************************)
EligibleSource(id, img) ==
    /\ options.AutoSplitDoublePage
    /\ ~(options.HasCover /\ id = 0)
    /\ img.w > img.h /\ img.w > options.ViewHeight /\ img.h > options.ViewWidth

SizeConditions(img) ==
    img.w > img.h /\ img.w > options.ViewHeight /\ img.h > options.ViewWidth

C4_CoverExemptFromSplit ==
    /\ options.HasCover =>
          \A k \in DOMAIN delivered : delivered[k].Id = 0 => delivered[k].Part = 0
    /\ ~options.HasCover =>
          \A w \in DOMAIN wk : (Finished(w) /\ wk[w].task.Id = 0) =>
              ((options.AutoSplitDoublePage /\ SizeConditions(wk[w].src))
                   <=> wk[w].emitted = <<0, 1, 2>>)
    /\ \A w \in DOMAIN wk : (Finished(w) /\ wk[w].task.Id > 0) =>
              ((options.AutoSplitDoublePage /\ SizeConditions(wk[w].src))
                   <=> wk[w].emitted = <<0, 1, 2>>)

\* a first page that meets every size condition, splitting on, left whole
C4_Witness ==
    /\ options.HasCover /\ options.AutoSplitDoublePage
    /\ \E w \in DOMAIN wk :
          /\ Finished(w) /\ wk[w].task.Id = 0
          /\ SizeConditions(wk[w].src)
          /\ wk[w].emitted = <<0>>

(***************************************************************************)
(* C7.  Once the collecting loop has run, LoadImages returns the           *)
(* no-usable-image error exactly when no received result survives the      *)
(* blank-page filter, and otherwise the survivors: with NoBlankPage a      *)
(* result is dropped iff its width and height are both 1, without it none  *)
(* is dropped.  It never returns an empty list there.                      *)
(***************************************************************************)
Survives(img) == ~options.NoBlankPage \/ ~(img.Width = 1 /\ img.Height = 1)

C7_NoUsableImages ==
    (CollectLoopRan /\ ~dry) =>
        LET survivors == SelectSeq(delivered, Survives)
        IN  /\ ret.err = "image not found" <=> survivors = <<>>
            /\ ret.err \in {"image not found", ErrNone}
            /\ ret.err = ErrNone => (ret.images = survivors /\ ret.images # <<>>)
            /\ ret.err # ErrNone => ret.images = <<>>

\* results were received, all 1x1, all dropped
C7_Witness ==
    /\ CollectLoopRan /\ ~dry /\ options.NoBlankPage
    /\ delivered # <<>>
    /\ \A k \in DOMAIN delivered : delivered[k].Width = 1 /\ delivered[k].Height = 1
    /\ ret.err = "image not found"

(***************************************************************************)
(* C8.  With Crop set, when findMarging returns a rectangle of zero or     *)
(* negative area the crop is skipped: the bitmap that is converted keeps   *)
(* the bounds of the decoded one.                                          *)
(***************************************************************************)
C8_EmptyMarginSkipsCrop ==
    \A w \in DOMAIN wk :
        (Decoded(w) /\ options.Crop /\ RectEmpty(findMarging(wk[w].decoded))) =>
            Bounds(wk[w].src) = Bounds(wk[w].decoded)

(***************************************************************************)
(* C10.  Every result record of LoadImages, dry or not, has IsCover true   *)
(* iff its Index is 0 and its Part is 0.                                   *)
(***************************************************************************)
C10_IsCoverIffFirstWhole ==
    \A k \in DOMAIN images : images[k].IsCover <=> (images[k].Id = 0 /\ images[k].Part = 0)

(***************************************************************************)
(* C11.  An I/O failure met while LoadImages streams an archive or a PDF   *)
(* it has enumerated (the second open of the container fails, Next fails,  *)
(* the copy of an entry's bytes fails midway) aborts the run: from then on *)
(* the task stream is never closed as if it had ended, LoadImages never    *)
(* returns a result list, and the process is not left hanging (it has      *)
(* ended, or some goroutine can still take a step).                        *)
(***************************************************************************)
TasksSent == Len(LoadInput(input).tasks) - Len(queue)

\* io.Copy failed for an entry whose task the loader's goroutine has sent
CopyFailed ==
    /\ pc \in {"dry", "collect", "returned"}
    /\ input.kind = "rar"
    /\ \E i \in 1 .. TasksSent : ~LoadInput(input).tasks[i].data.io

StreamFailed == CopyFailed \/ (exited /\ ProducerFails)

C11_IOFailureAborts ==
    StreamFailed =>
        /\ ~inputClosed
        /\ ~(pc = "returned" /\ ret.err = ErrNone)
        /\ exited \/ ENABLED Next

(***************************************************************************)
(* C15.  The double-page split test of LoadImages is made on the bitmap as *)
(* decoded, before the margins are cropped: a page is split exactly when   *)
(* the decoded bitmap is eligible, with Crop as without it.                *)
(***************************************************************************)
WasSplit(w) == \E k \in DOMAIN wk[w].emitted : wk[w].emitted[k] = 2

C15_SplitTestOnOriginal ==
    \A w \in DOMAIN wk : Finished(w) =>
        (WasSplit(w) <=> EligibleSource(wk[w].task.Id, wk[w].decoded))

(***************************************************************************)
(* Properties of the loaders, checked under SpecLoader.                    *)
(***************************************************************************)
QualifyingNames == NamesOf(Qualifying(e.Input.files))

(***************************************************************************)
(* C5.  For the zip and rar adapters the indices given to the N qualifying *)
(* entries are a dense permutation of 0..N-1, each entry's index being the *)
(* position of its name in the comparator-sorted name list, whatever the   *)
(* physical order of the file table and whatever names the archive holds.  *)
(***************************************************************************)
C5_DensePermutation ==
    (Streaming /\ e.Input.kind \in {"zip", "rar"}) =>
        LET sorted == SortNames(QualifyingNames)
            n == Len(QualifyingNames)
        IN  /\ totalImages = n
            /\ Len(jobsPlan) = n
            /\ { jobsPlan[i].Id : i \in DOMAIN jobsPlan } = 0 .. n - 1
            /\ \A i \in DOMAIN jobsPlan : sorted[jobsPlan[i].Id + 1] = jobsPlan[i].Name

(***************************************************************************)
(* C6.  Every adapter (directory, zip, rar, PDF) fails with the            *)
(* no-images-found error and hands out no entry stream when enumeration    *)
(* yields no qualifying entry; a PDF with no page is an error.             *)
(***************************************************************************)
C6_NoImagesFound ==
    (lpc = "returned" /\ e.Input.kind \in {"dir", "zip", "rar", "pdf"}
                      /\ loadErr # ErrOpenReader
                      /\ Len(QualifyingNames) = 0) =>
        (loadErr = "no images found" /\ ~outputMade)

Range(s) == { s[i] : i \in DOMAIN s }

CountIn(s, x) == Cardinality({ i \in DOMAIN s : s[i] = x })

SameBag(s, t) ==
    /\ Len(s) = Len(t)
    /\ \A x \in Range(s) \cup Range(t) : CountIn(s, x) = CountIn(t, x)

\* the workers that hold the task of their job, before or after its send
Built(w) == lw[w].pc = "send" \/ (lw[w].pc \in {"recv", "done"} /\ lw[w].job # NoJob)

\* every task built so far that was not lost with the process
TasksBuilt ==
    { lw[w].task : w \in { v \in DOMAIN lw : lw[v].pc = "send" } }
        \cup Range(output) \cup Range(received)

Meta(t) == [Id |-> t.Id, Path |-> t.Path, Name |-> t.Name]

\* the loader returned its channel and the enumeration found images
Started == lpc = "returned" /\ loadErr = ErrNone

(***************************************************************************)
(* C12.  In dry mode, for a directory, a zip, a rar (solid or not) and a   *)
(* PDF, the loader emits one task per entry with the index, grouping path  *)
(* and name the entry has in non-dry mode, with no image and no error, and *)
(* it never opens, reads, buffers or decodes the content of an entry.      *)
(***************************************************************************)
\* the index, path and name of the tasks of a run that is not dry
NonDryMeta ==
    LET jobs == load(e.Input, FALSE).jobs
    IN  [i \in DOMAIN jobs |-> Meta(TaskOf(jobs[i], Reader(TRUE, <<jobs[i].data>>), FALSE))]

C12_DryEmitsMetadataOnly ==
    (Started /\ e.Dry) =>
        /\ opens = {} /\ buffers = <<>>
        /\ aborted = "none"
        /\ \A t \in TasksBuilt : t.Image = NilImage /\ t.Error = ErrNone
        /\ \A t \in TasksBuilt : Meta(t) \in Range(NonDryMeta)
        /\ consumerDone => SameBag([i \in DOMAIN received |-> Meta(received[i])], NonDryMeta)

\* a dry run over a solid rar that holds an entry no open could read, to its end
C12_Witness ==
    /\ Started /\ e.Dry /\ consumerDone
    /\ e.Input.kind = "rar" /\ e.Input.solid
    /\ Len(received) >= 2
    /\ \E i \in DOMAIN jobsPlan : ~jobsPlan[i].data.io
    /\ \E i \in DOMAIN received : received[i].Path # ""

(***************************************************************************)
(* C13.  For a solid rar, not dry, one producer reads the archive in one   *)
(* sequential pass, and the job a worker holds opens to the complete bytes *)
(* of exactly the entry the job was made for, whose name has the sorted    *)
(* index the job carries, whatever the producer has read in the meantime;  *)
(* no worker opens the archive or an entry of it.                          *)
(***************************************************************************)
C13_SolidEntriesBuffered ==
    (Started /\ SolidPass) =>
        /\ \A w \in DOMAIN lw : Built(w) =>
              /\ lw[w].reader = Reader(TRUE, <<lw[w].job.data>>)
              /\ lw[w].job.Id = IndexedName(SortNames(QualifyingNames), lw[w].job.Name)
        /\ \A o \in opens : o.by = "worker" => o.src = "buffer"
        /\ \A i \in DOMAIN jobsPlan : EntryRead(i) => \A j \in 1 .. i - 1 : EntryRead(j)
        /\ \A i \in DOMAIN jobsPlan : i <= jobsSent => EntryRead(i)

\* a worker opened the first job after the producer had read the second entry, whose
\* content is another one
C13_Witness ==
    /\ Started /\ SolidPass /\ aborted = "none"
    /\ EntryRead(2)
    /\ jobsPlan[1].data # jobsPlan[2].data
    /\ \E w \in DOMAIN lw :
          /\ lw[w].pc = "send" /\ lw[w].job = jobsPlan[1]
          /\ jobsSent = 1
          /\ lw[w].reader = Reader(TRUE, <<jobsPlan[1].data>>)

(***************************************************************************)
(* C14.  In the loaders, an entry that is opened and fails to decode gives *)
(* exactly one task, whose Image is the placeholder (not empty) and whose  *)
(* Error is the decode error; the decode failure does not end the process  *)
(* and the worker goes on: when the stream ends, as many tasks were        *)
(* emitted as there were jobs, as if no entry were corrupted.              *)
(***************************************************************************)
AllReadable ==
    /\ e.Input.fault = "none"
    /\ \A i \in DOMAIN jobsPlan : jobsPlan[i].data.io

DecodeFailed(w) == lw[w].reader.ok /\ ~Head(lw[w].reader.bytes).ok

C14_DecodeFailureGivesPlaceholder ==
    (Started /\ ~e.Dry) =>
        /\ \A w \in DOMAIN lw : (Built(w) /\ DecodeFailed(w)) =>
              /\ lw[w].task.Image = corruptedImage
              /\ lw[w].task.Error = "decode"
        /\ \A t \in TasksBuilt : t.Error # ErrNone =>
              /\ t.Image.tag = "corrupted"
              /\ t.Image.img.w > 0 /\ t.Image.img.h > 0
        /\ AllReadable => aborted = "none"
        /\ consumerDone =>
              SameBag([i \in DOMAIN received |-> received[i].Id],
                      [i \in DOMAIN jobsPlan |-> jobsPlan[i].Id])
        /\ (consumerDone /\ AllReadable) =>
              \A i \in DOMAIN jobsPlan : ~jobsPlan[i].data.ok =>
                  \E k \in DOMAIN received :
                      /\ received[k].Id = jobsPlan[i].Id
                      /\ received[k].Error = "decode"

\* a single worker built the placeholder for a corrupted entry of a zip and then the
\* task of a sound one
C14_Witness ==
    /\ Started /\ ~e.Dry /\ consumerDone
    /\ e.Input.kind = "zip" /\ Len(lw) = 1
    /\ Len(received) >= 2
    /\ received[1].Error = "decode" /\ received[1].Image = corruptedImage
    /\ received[2].Error = ErrNone /\ received[2].Image.tag = "decoded"

(***************************************************************************)
(* C19.  In the zip and rar loaders (the rar archive opened entry by entry *)
(* by the workers), every job a worker takes gives exactly one task on the *)
(* output channel, also when the open of the entry fails: the process is   *)
(* not ended, the task carries the open error and the placeholder, and     *)
(* when the stream ends there is one task for every job.                   *)
(***************************************************************************)
C19_OpenFailureGivesTask ==
    (Started /\ ~e.Dry /\ e.Input.kind \in {"zip", "rar"} /\ ~SolidPass) =>
        /\ aborted = "none"
        /\ \A w \in DOMAIN lw : (Built(w) /\ ~lw[w].reader.ok) =>
              /\ lw[w].task.Error = "open"
              /\ lw[w].task.Image = corruptedImage
        /\ consumerDone =>
              SameBag([i \in DOMAIN received |-> received[i].Id],
                      [i \in DOMAIN jobsPlan |-> jobsPlan[i].Id])

(***************************************************************************)
(* SpecPipeline: a run of LoadImages or a run of a loader, for the         *)
(* properties both share; FairPipeline adds that a goroutine that can take *)
(* a step is scheduled in the end.                                         *)
(***************************************************************************)
InitPipeline == Init \/ InitLoader

NextPipeline == Next \/ NextLoader

SpecPipeline == InitPipeline /\ [][NextPipeline]_vars

\* The fair runs start from the inputs that differ by their structure: the kind of
\* the source, its fault, the number and order of its entries and whether each can
\* be read and decoded; one sound bitmap stands for all, and Crop, HasCover and
\* NoBlankPage, which change no step, are off.
FairInputs ==
    { s \in Sources : \A i \in DOMAIN s.files :
          s.files[i].data \in {Decodes(Spread), Corrupted, Unreadable} }

FairOptions ==
    { o \in OptionSets : ~o.Crop /\ ~o.HasCover /\ ~o.NoBlankPage }

FairLoaderInputs == { s \in LoaderSources : Len(s.files) <= MaxFiles }

InitFair ==
    /\ InitPipeline
    /\ pc # "off" => (input \in FairInputs /\ options \in FairOptions)
    /\ lpc # "off" => e.Input \in FairLoaderInputs

\* every goroutine that can take a step (it is not blocked on a channel or on the
\* WaitGroup) is scheduled in the end
FairPipeline == InitFair /\ [][NextPipeline]_vars /\ WF_vars(NextPipeline)

(***************************************************************************)
(* C17.  The result stream is closed once, and only after every worker has *)
(* finished: no worker sends after the close, nothing is added to the      *)
(* stream once it is closed and it stays closed, and when the consumer     *)
(* sees the end of the results every result of every entry taken from the  *)
(* queue has been delivered; in LoadImages and in each loader.             *)
(***************************************************************************)
PartsDelivered(id) == { delivered[k].Part : k \in { j \in DOMAIN delivered : delivered[j].Id = id } }

\* the results on their way or delivered
Emitted == Len(output) + Len(received)

C17_ClosedState ==
    /\ outputClosed =>
          /\ wgWait(wk)
          /\ queue = <<>>
    /\ CollectLoopRan =>
          /\ \A i \in DOMAIN LoadInput(input).tasks :
                0 \in PartsDelivered(LoadInput(input).tasks[i].Id)
          /\ \A w \in DOMAIN wk :
                WasSplit(w) => {1, 2} \subseteq PartsDelivered(wk[w].task.Id)
    /\ outputDone =>
          /\ wgWait(lw)
          /\ jobsSent = Len(jobsPlan)
          /\ Emitted = jobsSent
    /\ consumerDone =>
          /\ outputDone /\ output = <<>>
          /\ Len(received) = jobsSent

C17_ClosedStep ==
    /\ outputClosed => (outputClosed' /\ delivered' = delivered)
    /\ outputDone => (outputDone' /\ Emitted' = Emitted)
    /\ consumerDone => (consumerDone' /\ received' = received)

C17_ClosedAfterWorkers == []C17_ClosedState /\ [][C17_ClosedStep]_vars

\* two workers of LoadImages each processed a page, one of them split, and the
\* collecting loop ended
C17_Witness ==
    /\ CollectLoopRan /\ Len(wk) = 2
    /\ \A w \in DOMAIN wk : wk[w].task # NoTask
    /\ \E w \in DOMAIN wk : WasSplit(w)
    /\ Len(delivered) = 4

(***************************************************************************)
(* C18.  For every worker count and interleaving each enumerated entry is  *)
(* taken by exactly one worker: the number of tasks a loader has emitted   *)
(* when it closes its channel is the totalImages it returned, and the list *)
(* LoadImages returns (not dry, no blank page dropped) holds exactly one   *)
(* Part-0 result for each Index 0..N-1 and none for another Index.         *)
(***************************************************************************)
PartZeroCount(seq, id) ==
    Cardinality({ k \in DOMAIN seq : seq[k].Id = id /\ seq[k].Part = 0 })

C18_EachEntryOnce ==
    /\ (Started /\ outputDone) => Emitted = totalImages
    /\ (CollectLoopRan /\ ~dry /\ ~options.NoBlankPage /\ ret.err = ErrNone) =>
          /\ \A id \in 0 .. imageCount - 1 : PartZeroCount(ret.images, id) = 1
          /\ \A k \in DOMAIN ret.images : ret.images[k].Id \in 0 .. imageCount - 1

(***************************************************************************)
(* C20.  When no fatal error ends the process, the pipeline terminates:    *)
(* the producer closes the queue, every worker exits, the output channel   *)
(* is closed and the consumer sees its end (LoadImages returns), with no   *)
(* goroutine left blocked on a send or a receive.                          *)
(***************************************************************************)
LoadImagesDone ==
    /\ pc = "returned"
    /\ ret.err \in {"stat", "unknown file format", "image not found", "no images found"}
       \/ /\ inputClosed /\ queue = <<>>
          /\ dry \/ (wgWait(wk) /\ outputClosed)

LoaderDone ==
    /\ lpc = "returned"
    /\ loadErr # ErrNone
       \/ /\ jobsSent = Len(jobsPlan)
          /\ e.Input.kind = "pdf" \/ (jobsClosed /\ wgWait(lw))
          /\ outputDone /\ output = <<>> /\ consumerDone

Fatal == exited \/ aborted # "none"

C20_Terminates == <>(Fatal \/ LoadImagesDone \/ LoaderDone)

\* a loader with two workers came to its end with every task received
C20_Witness ==
    /\ LoaderDone /\ loadErr = ErrNone
    /\ Len(lw) = 2 /\ e.Input.kind = "dir"
    /\ Len(received) = MaxFiles

(***************************************************************************)
(* C21.  In loadCbz the archive reader is closed only after every worker   *)
(* has finished: it is closed at most once, never without having been      *)
(* opened, already at the return when no image was found, and otherwise    *)
(* only when every worker has exited; once it is closed no worker opens or *)
(* reads an entry and no worker moves; and after the last worker has       *)
(* exited the reader is closed in the end.                                 *)
(***************************************************************************)
\* zip.OpenReader gave loadCbz its reader
ReaderOpened == e.Input.kind = "zip" /\ lpc = "returned" /\ loadErr # ErrOpenReader

\* the entries the workers opened and decoded
WorkerOpenings == { o \in opens : o.by = "worker" }

LastWorkerExited == ReaderOpened /\ Started /\ wgWait(lw)

C21_ReaderState ==
    /\ readerClosed <= 1
    /\ ~ReaderOpened => readerClosed = 0
    /\ (ReaderOpened /\ loadErr = errNoImagesFound) =>
          /\ readerClosed = 1
          /\ lw = <<>> /\ opens = {}
    /\ (ReaderOpened /\ Started /\ readerClosed = 1) =>
          /\ wgWait(lw)
          /\ jobsSent = Len(jobsPlan) /\ jobsClosed
          /\ outputDone

C21_ReaderStep ==
    (ReaderOpened /\ readerClosed = 1) =>
        /\ readerClosed' = 1
        /\ opens' = opens
        /\ lw' = lw

C21_ReaderClosedOnce ==
    /\ []C21_ReaderState
    /\ [][C21_ReaderStep]_vars
    /\ LastWorkerExited ~> (readerClosed = 1)

\* two workers each opened and decoded an entry of the zip, both exited, the
\* reader was closed and the consumer came to the end of the tasks
C21_Witness ==
    /\ ReaderOpened /\ ~e.Dry
    /\ Len(lw) = 2 /\ \A w \in DOMAIN lw : lw[w].job # NoJob /\ lw[w].pc = "done"
    /\ Cardinality(WorkerOpenings) = 2
    /\ readerClosed = 1 /\ consumerDone

(***************************************************************************)
(* SpecMargin: findMarging called on one bitmap.                           *)
(***************************************************************************)
InitMargin ==
    /\ LoadImagesIdle
    /\ LoaderIdle
    /\ \E w \in 1 .. MaxW, h \in 1 .. MaxH : mImg \in Bitmaps(w, h)
    /\ mRect = NoRect
    /\ mpc = "call"

CallFindMarging ==
    /\ mpc = "call"
    /\ mRect' = findMarging(mImg)
    /\ mpc' = "done"
    /\ UNCHANGED <<mImg, liVars, ldVars>>

NextMargin == CallFindMarging

SpecMargin == InitMargin /\ [][NextMargin]_vars

(***************************************************************************)
(* C9.  For every bitmap with at least one non-blank pixel (luma < 0xf0),  *)
(* findMarging returns the bounding box of the non-blank pixels; for one   *)
(* solid rectangular block of non-blank pixels surrounded by blank pixels  *)
(* that is exactly the block.                                              *)
(***************************************************************************)
NonBlank(img) == { p \in Coords(img.w, img.h) : img.px[p] < 240 }

BoundingBox(S) ==
    Rect(Min({ p[1] : p \in S }), Min({ p[2] : p \in S }),
         Max({ p[1] : p \in S }) + 1, Max({ p[2] : p \in S }) + 1)

IsSolidBlock(img) ==
    \E x0 \in 0 .. img.w - 1, y0 \in 0 .. img.h - 1, x1 \in 1 .. img.w, y1 \in 1 .. img.h :
        /\ x0 < x1 /\ y0 < y1
        /\ NonBlank(img) = (x0 .. x1 - 1) \X (y0 .. y1 - 1)

C9_BoundingBox ==
    (mpc = "done" /\ NonBlank(mImg) # {}) => mRect = BoundingBox(NonBlank(mImg))

\* a block with a blank margin on each of its four sides, found exactly
C9_Witness ==
    /\ mpc = "done"
    /\ IsSolidBlock(mImg)
    /\ mRect.MinX > 0 /\ mRect.MaxX < mImg.w
    /\ mRect.MinY > 0 /\ mRect.MaxY < mImg.h
    /\ mRect = BoundingBox(NonBlank(mImg))

(***************************************************************************)
(* C16.  findMarging shrinks each side against the original bounds: for    *)
(* every bitmap, an all-blank one included, the rectangle it returns is    *)
(* the one made of the four shrink amounts computed independently, each on *)
(* the unshrunk bounds (so the order of the sides does not matter).        *)
(***************************************************************************)
FullColumnBlank(img, x) == \A y \in 0 .. img.h - 1 : colorIsBlank(At(img, x, y))

FullRowBlank(img, y) == \A x \in 0 .. img.w - 1 : colorIsBlank(At(img, x, y))

\* the number of leading (trailing) blank columns and rows of the whole bitmap
ShrinkLeft(img) == Max({ n \in 0 .. img.w : \A x \in 0 .. n - 1 : FullColumnBlank(img, x) })

ShrinkUp(img) == Max({ n \in 0 .. img.h : \A y \in 0 .. n - 1 : FullRowBlank(img, y) })

ShrinkRight(img) ==
    Max({ n \in 0 .. img.w : \A x \in img.w - n .. img.w - 1 : FullColumnBlank(img, x) })

ShrinkBottom(img) ==
    Max({ n \in 0 .. img.h : \A y \in img.h - n .. img.h - 1 : FullRowBlank(img, y) })

IndependentMargins(img) ==
    Rect(ShrinkLeft(img), ShrinkUp(img), img.w - ShrinkRight(img), img.h - ShrinkBottom(img))

C16_IndependentSides == mpc = "done" => mRect = IndependentMargins(mImg)

=============================================================================
